---- MODULE Spec2Model ----
(***************************************************************************)
(* Model of plasma_gnome_screenshot_bridge/bridge.py: the bridge           *)
(* orchestrator (ScreenshotBridge, async_main), the idle monitor           *)
(* (IdleMonitorInterface) and the screenshot backends.                     *)
(*                                                                         *)
(* The program runs on one asyncio event loop.  A step of the model is the *)
(* code a task runs between two suspension points (await that really       *)
(* suspends).  An await of a task that is already done, or of wait() on a  *)
(* child whose exit was already observed, does not suspend and is part of  *)
(* the same step.                                                          *)
(***************************************************************************)
EXTENDS Integers, Sequences, FiniteSets, TLC

\* ---------------------------------------------------------------- bounds
MaxStops == 2      \* termination signals delivered (stop() tasks created)
IdleStops == 1     \* the same, in the specification that runs the clock
MaxClock == 3      \* clock ticks
TicksPerMs == 2    \* clock ticks per millisecond (the clock is finer than 1 ms)
MaxCalls == 2      \* capture calls sent to the bridge while others are waiting

\* ------------------------------------------------------------- constants
BACKENDS == <<"spectacle", "grim", "gnome-screenshot">>

BackendNames == {BACKENDS[i] : i \in 1..Len(BACKENDS)}

\* argparse offers the three names; the constructor accepts any string
PreferredNames == {"None", "", "other", "Grim"} \cup BackendNames

\* the --backend values the life cycle is run with, and the screenshot tools
\* that may be installed while it runs (the backends are studied one by one
\* in the backend specification)
LifecyclePreferred == {"None", "grim"}

LifecycleTools == {"grim"}

StopIds == 1..MaxStops

VARIABLES
    backend_name,     \* ScreenshotBridge.backend_name ("None" = None)
    warn_before,      \* ScreenshotBridge.warn_before
    enable_idle,      \* ScreenshotBridge.enable_idle
    bus,              \* ScreenshotBridge.bus: "None" or the connection's state
    exports,          \* object paths exported on the bus (by interface name)
    names,            \* well-known names claimed
    idle_monitor,     \* ScreenshotBridge.idle_monitor is set
    running,          \* ScreenshotBridge._running
    backend,          \* the backend detect_backend selected ("None" = none)
    last_active,      \* IdleMonitorInterface.last_active (clock ticks)
    monitor_process,  \* IdleMonitorInterface._monitor_process: "None", or the
                      \* child as the event loop knows it ("alive", "eof",
                      \* "exited", "closed")
    monitor_task,     \* IdleMonitorInterface._monitor_task
    mainPc,           \* where async_main / run_forever / start is suspended
    replied,          \* the bus call start() awaits has its reply; start() has
                      \* not been resumed yet
    stopPc,           \* per stop() task: where it is suspended / how it ended
    stopCtx,          \* per stop() task: the situation it was called and
                      \* started in
    now,              \* the wall clock
    constructedAt,    \* clock value when IdleMonitorInterface() ran
    terminateSent,    \* a terminate() reached the live child
    cancelCalls,      \* calls of _monitor_task.cancel()
    terminateCalls,   \* calls of _monitor_process.terminate()
    disconnectCalls,  \* calls of bus.disconnect()
    lastIdle,         \* value returned by the last GetIdletime() (-1 = none yet)
    prevIdle,         \* value returned by the GetIdletime() before it
    resumedSince,     \* a resume line was consumed since the last GetIdletime()
    cap               \* the call under study (of a backend, of detect_backend,
                      \* of the Screenshot interface) or the capture calls
                      \* received

vars == <<backend_name, warn_before, enable_idle, bus, exports, names,
          idle_monitor, running, backend, last_active, monitor_process,
          monitor_task, mainPc, replied, stopPc, stopCtx, now, constructedAt,
          terminateSent, cancelCalls, terminateCalls, disconnectCalls,
          lastIdle, prevIdle, resumedSince, cap>>

bridgeVars == <<bus, exports, names, idle_monitor, running, replied>>

monitorVars == <<last_active, monitor_process, monitor_task>>

configVars == <<backend_name, warn_before, enable_idle>>

queryVars == <<lastIdle, prevIdle, resumedSince>>

callVars == <<terminateSent, cancelCalls, terminateCalls, disconnectCalls>>

\* ------------------------------------------------------------- detection
\* the second loop of detect_backend with BACKENDS scanned from its end
LastAvailable(i, avail) ==
    LET idx == {j \in i..Len(BACKENDS) : BACKENDS[j] \in avail}
    IN  IF idx = {} THEN "None"
        ELSE BACKENDS[CHOOSE j \in idx : \A k \in idx : k <= j]

\* the second loop of detect_backend: first available backend in list order
RECURSIVE FirstAvailable(_, _)
FirstAvailable(i, avail) ==
    IF i > Len(BACKENDS) THEN "None"
    ELSE IF BACKENDS[i] \in avail THEN BACKENDS[i]
    ELSE FirstAvailable(i + 1, avail)

\* the first loop of detect_backend without the return of line 166
ScanPreferredNoReturn(i, preferred, avail) == "None"

\* the first loop of detect_backend without the is_available test of line 164
RECURSIVE ScanPreferredUnchecked(_, _, _)
ScanPreferredUnchecked(i, preferred, avail) ==
    IF i > Len(BACKENDS) THEN "None"
    ELSE IF BACKENDS[i] = preferred THEN BACKENDS[i]
    ELSE ScanPreferredUnchecked(i + 1, preferred, avail)

\* the first loop of detect_backend: stops at the first name match, and
\* yields it only if it is available ("None" = fall through to auto-detect)
RECURSIVE ScanPreferred(_, _, _)
ScanPreferred(i, preferred, avail) ==
    IF i > Len(BACKENDS) THEN "None"
    ELSE IF BACKENDS[i] = preferred
         THEN (IF BACKENDS[i] \in avail THEN BACKENDS[i] ELSE "None")
         ELSE ScanPreferred(i + 1, preferred, avail)

\* "if preferred:" is false for None and for the empty string
detect_backend(preferred, avail) ==
    LET p == IF preferred \notin {"None", ""}
             THEN ScanPreferred(1, preferred, avail) ELSE "None"
    IN  IF p # "None" THEN p ELSE FirstAvailable(1, avail)

\* ---------------------------------------------------------- idle duration
\* Python round(): to the nearest integer, ties to the even one
RoundMs(ticks) ==
    LET q == ticks \div TicksPerMs
        r == ticks % TicksPerMs
    IN  IF 2 * r < TicksPerMs THEN q
        ELSE IF 2 * r > TicksPerMs THEN q + 1
        ELSE IF q % 2 = 0 THEN q ELSE q + 1

\* -------------------------------------------------------------- the lines
\* A line of the child's stdout, as a sequence of tokens: words, blanks and
\* "BAD" for bytes that are not valid UTF-8.
Blank == {" ", "\n"}

Lines == { <<"resume", "\n">>, <<"timeout", "\n">>, <<" ", "resume", " ", "\n">>,
           <<"resume", " ", "x", "\n">>, <<"\n">>, <<"BAD", "\n">> }

Decodable(line) == \A i \in 1..Len(line) : line[i] # "BAD"

RECURSIVE LStrip(_)
LStrip(s) == IF s # <<>> /\ Head(s) \in Blank THEN LStrip(Tail(s)) ELSE s

RECURSIVE RStrip(_)
RStrip(s) ==
    IF s # <<>> /\ s[Len(s)] \in Blank THEN RStrip(SubSeq(s, 1, Len(s) - 1)) ELSE s

Strip(s) == RStrip(LStrip(s))

IsResume(line) == Strip(line) = <<"resume">>

\* ------------------------------------------------------------ task states
Suspended == {"connect", "reqname1", "spawn", "reqname2", "sleep"}

MainEnded == {"returned", "raised"}

StopWaiting == {"awaitTask", "awaitWait"}

StopEnded == {"done", "raised", "cancelled"}

TaskOver == {"done", "cancelled"}

\* the states of the child in which its stdout has not reached end of file:
\* running, or exited while another process still holds the pipe
StdoutOpen == {"alive", "exited"}

NoCap == [phase |-> "none"]

\* The bridge as constructed by async_main, before run_forever's first step.
\* The life cycle does not read warn_before (it is handed to the Screenshot
\* interface), so it is left at its default here.
Init ==
    /\ backend_name \in LifecyclePreferred
    /\ warn_before = FALSE
    /\ enable_idle \in BOOLEAN
    /\ bus = "None"
    /\ exports = {}
    /\ names = {}
    /\ idle_monitor = FALSE
    /\ running = FALSE
    /\ backend = "None"
    /\ last_active = -1
    /\ monitor_process = "None"
    /\ monitor_task = "None"
    /\ mainPc = "begin"
    /\ replied = FALSE
    /\ stopPc = [i \in StopIds |-> "unborn"]
    /\ stopCtx = [i \in StopIds |-> "none"]
    /\ now = 0
    /\ constructedAt = -1
    /\ terminateSent = FALSE
    /\ cancelCalls = 0
    /\ terminateCalls = 0
    /\ disconnectCalls = 0
    /\ lastIdle = -1
    /\ prevIdle = -1
    /\ resumedSince = FALSE
    /\ cap = NoCap

\* ------------------------------------------------------- the main task
\* asyncio.run() after the main task ended: every other task is cancelled.
\* A stop() not yet started never runs; one suspended in wait() gets the
\* CancelledError; one suspended on the read task swallows it (line 281) and
\* goes on when the read task is over; the read task is cancelled.
EndMain(pc) ==
    /\ mainPc' = pc
    /\ stopPc' = [i \in StopIds |->
                    IF stopPc[i] \in {"scheduled", "awaitWait"} THEN "cancelled"
                    ELSE stopPc[i]]
    /\ monitor_task' = IF monitor_task = "pending" THEN "cancelling" ELSE monitor_task

\* start() without the check of lines 309-312
MainBeginUnchecked(avail, busOk) ==
    /\ mainPc = "begin"
    /\ backend' = detect_backend(backend_name, avail)
    /\ IF busOk
       THEN /\ bus' = "connecting"
            /\ mainPc' = "connect"
            /\ UNCHANGED <<stopPc, monitor_task>>
       ELSE /\ EndMain("raised")
            /\ UNCHANGED bus
    /\ UNCHANGED <<configVars, exports, names, idle_monitor, running, replied,
                   last_active, monitor_process, stopCtx, now, constructedAt,
                   callVars, queryVars, cap>>

\* async_main up to the first suspension of start(): detect_backend, MessageBus()
MainBegin(avail, busOk) ==
    /\ mainPc = "begin"
    /\ backend' = detect_backend(backend_name, avail)
    /\ IF backend' = "None"
       THEN /\ EndMain("returned")
            /\ UNCHANGED bus
       ELSE IF busOk
            THEN /\ bus' = "connecting"
                 /\ mainPc' = "connect"
                 /\ UNCHANGED <<stopPc, monitor_task>>
            ELSE /\ EndMain("raised")
                 /\ UNCHANGED bus
    /\ UNCHANGED <<configVars, exports, names, idle_monitor, running, replied,
                   last_active, monitor_process, stopCtx, now, constructedAt,
                   callVars, queryVars, cap>>

\* The reply to the bus call start() is suspended in arrives: the awaited
\* future is resolved and start() is made ready to run.  Other ready tasks
\* (a stop()) may run before start() is resumed.
ReplyArrives ==
    /\ mainPc \in {"connect", "reqname1", "reqname2"}
    /\ ~replied
    /\ bus = (IF mainPc = "connect" THEN "connecting" ELSE "connected")
    /\ replied' = TRUE
    /\ bus' = "connected"
    /\ UNCHANGED <<configVars, exports, names, idle_monitor, running, backend,
                   monitorVars, mainPc, stopPc, stopCtx, now, constructedAt,
                   callVars, queryVars, cap>>

\* start() resumes from bus.connect(): export the Screenshot interface,
\* request its name (lines 316-320)
BusConnected ==
    /\ mainPc = "connect"
    /\ replied
    /\ replied' = FALSE
    /\ exports' = exports \cup {"Screenshot"}
    /\ mainPc' = "reqname1"
    /\ UNCHANGED <<configVars, bus, names, idle_monitor, running, backend, monitorVars,
                   stopPc, stopCtx, now, constructedAt, callVars, queryVars, cap>>

\* start() resumes from request_name("org.gnome.Shell.Screenshot") (the reply
\* is not looked at: granted = FALSE is a reply such as "in queue"); then
\* lines 323-325 and 248, or line 330
NameReplied1(granted, swayidle) ==
    /\ mainPc = "reqname1"
    /\ replied
    /\ replied' = FALSE
    /\ names' = IF granted THEN names \cup {"Screenshot"} ELSE names
    /\ IF enable_idle
       THEN /\ idle_monitor' = TRUE
            /\ last_active' = now
            /\ constructedAt' = now
            /\ IF swayidle
               THEN /\ mainPc' = "spawn"
                    /\ UNCHANGED exports
               ELSE /\ exports' = exports \cup {"IdleMonitor"}
                    /\ mainPc' = "reqname2"
            /\ UNCHANGED running
       ELSE /\ running' = TRUE
            /\ mainPc' = "sleep"
            /\ UNCHANGED <<idle_monitor, last_active, constructedAt, exports>>
    /\ UNCHANGED <<configVars, bus, backend, monitor_process, monitor_task, stopPc,
                   stopCtx, now, callVars, queryVars, cap>>

\* start_monitoring without the try/except of lines 249-261
SpawnDoneUncaught(ok) ==
    /\ mainPc = "spawn"
    /\ IF ok
       THEN /\ monitor_process' = "alive"
            /\ monitor_task' = "pending"
            /\ exports' = exports \cup {"IdleMonitor"}
            /\ mainPc' = "reqname2"
            /\ UNCHANGED stopPc
       ELSE /\ EndMain("raised")
            /\ UNCHANGED <<monitor_process, exports>>
    /\ UNCHANGED <<configVars, bus, names, idle_monitor, running, replied,
                   backend, last_active, stopCtx, now, constructedAt,
                   callVars, queryVars, cap>>

\* create_subprocess_exec completed (ok) or raised (caught at line 260);
\* then lines 326-327
SpawnDone(ok) ==
    /\ mainPc = "spawn"
    /\ IF ok
       THEN /\ monitor_process' = "alive"
            /\ monitor_task' = "pending"
       ELSE UNCHANGED <<monitor_process, monitor_task>>
    /\ exports' = exports \cup {"IdleMonitor"}
    /\ mainPc' = "reqname2"
    /\ UNCHANGED <<configVars, bus, names, idle_monitor, running, replied,
                   backend, last_active, stopPc, stopCtx, now, constructedAt,
                   callVars, queryVars, cap>>

\* start() resumes from request_name("org.gnome.Mutter.IdleMonitor"); then
\* lines 330-332
NameReplied2(granted) ==
    /\ mainPc = "reqname2"
    /\ replied
    /\ replied' = FALSE
    /\ names' = IF granted THEN names \cup {"IdleMonitor"} ELSE names
    /\ running' = TRUE
    /\ mainPc' = "sleep"
    /\ UNCHANGED <<configVars, bus, exports, idle_monitor, backend, monitorVars,
                   stopPc, stopCtx, now, constructedAt, callVars, queryVars, cap>>

\* bus.connect() or request_name() raises: start() has no handler, the
\* exception leaves run_forever and async_main
BusCallRaises ==
    /\ mainPc \in {"connect", "reqname1", "reqname2"}
    /\ ~replied
    /\ EndMain("raised")
    /\ UNCHANGED <<configVars, bridgeVars, backend, last_active, monitor_process,
                   stopCtx, now, constructedAt, callVars, queryVars, cap>>

\* bus.connect() or request_name() on a bus that stop() disconnected meanwhile
\* never completes (the reply can no longer arrive)
BusCallHangs ==
    /\ mainPc \in {"connect", "reqname1", "reqname2"}
    /\ ~replied
    /\ bus = "disconnected"
    /\ mainPc' = "hung"
    /\ UNCHANGED <<configVars, bridgeVars, backend, monitorVars, stopPc, stopCtx,
                   now, constructedAt, callVars, queryVars, cap>>

\* run_forever's loop wakes from sleep(1) and finds _running false (a wake-up
\* that finds it true changes nothing)
MainWake ==
    /\ mainPc = "sleep"
    /\ ~running
    /\ EndMain("returned")
    /\ UNCHANGED <<configVars, bridgeVars, backend, last_active, monitor_process,
                   stopCtx, now, constructedAt, callVars, queryVars, cap>>

\* ------------------------------------------------------ signals and stop()
\* the signal handler of line 400: create_task(bridge.stop()), nothing else
SignalUpTo(n) ==
    /\ mainPc \in Suspended \cup {"hung"}
    /\ \E i \in StopIds :
          /\ i <= n
          /\ stopPc[i] = "unborn"
          /\ \A j \in StopIds : j < i => stopPc[j] # "unborn"
          /\ stopPc' = [stopPc EXCEPT ![i] = "scheduled"]
          /\ stopCtx' = [stopCtx EXCEPT ![i] =
                            IF \A j \in StopIds \ {i} : stopPc[j] \in {"unborn"} \cup StopEnded
                            THEN "none" ELSE "overlap"]
    /\ UNCHANGED <<configVars, bridgeVars, backend, monitorVars, mainPc,
                   now, constructedAt, callVars, queryVars, cap>>

\* lines 348-350
Disconnect(i) ==
    /\ IF bus # "None"
       THEN /\ bus' = "disconnected"
            /\ disconnectCalls' = disconnectCalls + 1
       ELSE UNCHANGED <<bus, disconnectCalls>>
    /\ stopPc' = [stopPc EXCEPT ![i] = "done"]

\* lines 283-285, then 348-350 when wait() does not suspend.  terminate()
\* raises ProcessLookupError once the child's transport is closed (exit
\* observed and stdout at end of file); on a child whose exit is known while
\* its stdout is still open it sends nothing, and wait() returns at once.
AfterTask(i) ==
    IF monitor_process # "None"
    THEN /\ terminateCalls' = terminateCalls + 1
         /\ IF monitor_process = "closed"
            THEN /\ stopPc' = [stopPc EXCEPT ![i] = "raised"]
                 /\ UNCHANGED <<terminateSent, bus, disconnectCalls>>
            ELSE IF monitor_process = "exited"
                 THEN /\ Disconnect(i)
                      /\ UNCHANGED terminateSent
                 ELSE /\ stopPc' = [stopPc EXCEPT ![i] = "awaitWait"]
                      /\ terminateSent' = TRUE
                      /\ UNCHANGED <<bus, disconnectCalls>>
    ELSE /\ Disconnect(i)
         /\ UNCHANGED <<terminateCalls, terminateSent>>

\* the situation a stop() starts in: "first" on a started bridge with no
\* earlier stop(), "second" when it was called after a "first" had completed,
\* "other" otherwise (as when it was called while another stop() was under way)
StartCtx(i) ==
    LET begun == {j \in StopIds \ {i} : stopPc[j] \in StopWaiting \cup StopEnded}
    IN  IF stopCtx[i] = "overlap"
        THEN "other"
        ELSE IF /\ begun = {}
                /\ running /\ bus = "connected"
                /\ monitor_process = "alive" /\ monitor_task = "pending"
             THEN "first"
             ELSE IF /\ Cardinality(begun) = 1
                     /\ \A j \in begun : stopCtx[j] = "first" /\ stopPc[j] = "done"
                  THEN "second"
                  ELSE "other"

\* stop() from its start to its first suspension: lines 345-347, 277-280
StopBegin(i) ==
    /\ stopPc[i] = "scheduled"
    /\ running' = FALSE
    /\ stopCtx' = [stopCtx EXCEPT ![i] = StartCtx(i)]
    /\ IF idle_monitor
       THEN IF monitor_task # "None"
            THEN /\ cancelCalls' = cancelCalls + 1
                 /\ monitor_task' = IF monitor_task = "pending" THEN "cancelling"
                                    ELSE monitor_task
                 /\ IF monitor_task \in TaskOver
                    THEN AfterTask(i)
                    ELSE /\ stopPc' = [stopPc EXCEPT ![i] = "awaitTask"]
                         /\ UNCHANGED <<terminateCalls, terminateSent, bus,
                                        disconnectCalls>>
            ELSE /\ AfterTask(i)
                 /\ UNCHANGED <<cancelCalls, monitor_task>>
       ELSE /\ Disconnect(i)
            /\ UNCHANGED <<cancelCalls, monitor_task, terminateCalls, terminateSent>>
    /\ UNCHANGED <<configVars, exports, names, idle_monitor, replied, backend,
                   last_active, monitor_process, mainPc, now, constructedAt,
                   queryVars, cap>>

\* the awaited read task is over (its CancelledError is swallowed): lines 281-285
StopTaskOver(i) ==
    /\ stopPc[i] = "awaitTask"
    /\ monitor_task \in TaskOver
    /\ AfterTask(i)
    /\ UNCHANGED <<configVars, exports, names, idle_monitor, running, replied,
                   backend, monitorVars, mainPc, stopCtx, now, constructedAt,
                   cancelCalls, queryVars, cap>>

\* the suspended wait() returns, which it does when the child's transport
\* closes: lines 348-350
StopWaitOver(i) ==
    /\ stopPc[i] = "awaitWait"
    /\ monitor_process = "closed"
    /\ Disconnect(i)
    /\ UNCHANGED <<configVars, exports, names, idle_monitor, running, replied,
                   backend, monitorVars, mainPc, stopCtx, now, constructedAt,
                   terminateSent, cancelCalls, terminateCalls, queryVars, cap>>

\* ------------------------------------------------- the read task and child
\* _idle_loop with line 271 testing for any event word
IdleLoopLineAnyEvent(line) ==
    /\ monitor_task = "pending"
    /\ monitor_process \in StdoutOpen
    /\ IF ~Decodable(line)
       THEN /\ monitor_task' = "done"
            /\ UNCHANGED <<last_active, resumedSince>>
       ELSE IF Strip(line) \in {<<"resume">>, <<"timeout">>}
            THEN /\ last_active' = now
                 /\ resumedSince' = (resumedSince \/ IsResume(line))
                 /\ UNCHANGED monitor_task
            ELSE UNCHANGED <<last_active, resumedSince, monitor_task>>
    /\ UNCHANGED <<configVars, bridgeVars, backend, monitor_process, mainPc, stopPc,
                   stopCtx, now, constructedAt, callVars, lastIdle, prevIdle, cap>>

\* _idle_loop consumes one line (lines 270-274): a line that does not decode
\* raises inside the loop, which ends it
IdleLoopLine(line) ==
    /\ monitor_task = "pending"
    /\ monitor_process \in StdoutOpen
    /\ IF ~Decodable(line)
       THEN /\ monitor_task' = "done"
            /\ UNCHANGED <<last_active, resumedSince>>
       ELSE IF IsResume(line)
            THEN /\ last_active' = now
                 /\ resumedSince' = TRUE
                 /\ UNCHANGED monitor_task
            ELSE UNCHANGED <<last_active, resumedSince, monitor_task>>
    /\ UNCHANGED <<configVars, bridgeVars, backend, monitor_process, mainPc, stopPc,
                   stopCtx, now, constructedAt, callVars, lastIdle, prevIdle, cap>>

\* the child's stdout closed: the loop ends normally
IdleLoopEOF ==
    /\ monitor_task = "pending"
    /\ monitor_process \in {"eof", "closed"}
    /\ monitor_task' = "done"
    /\ UNCHANGED <<configVars, bridgeVars, backend, last_active, monitor_process,
                   mainPc, stopPc, stopCtx, now, constructedAt, callVars, queryVars,
                   cap>>

\* the CancelledError reaches the read task (not caught by "except Exception")
IdleLoopCancelled ==
    /\ monitor_task = "cancelling"
    /\ monitor_task' = "cancelled"
    /\ UNCHANGED <<configVars, bridgeVars, backend, last_active, monitor_process,
                   mainPc, stopPc, stopCtx, now, constructedAt, callVars, queryVars,
                   cap>>

\* the child exits (on SIGTERM or by itself) and the loop observes it
ChildExit ==
    /\ monitor_process \in {"alive", "eof"}
    /\ monitor_process' = IF monitor_process = "alive" THEN "exited" ELSE "closed"
    /\ UNCHANGED <<configVars, bridgeVars, backend, last_active, monitor_task,
                   mainPc, stopPc, stopCtx, now, constructedAt, callVars, queryVars,
                   cap>>

\* the loop observes the end of the child's stdout
StdoutClosed ==
    /\ monitor_process \in StdoutOpen
    /\ monitor_process' = IF monitor_process = "alive" THEN "eof" ELSE "closed"
    /\ UNCHANGED <<configVars, bridgeVars, backend, last_active, monitor_task,
                   mainPc, stopPc, stopCtx, now, constructedAt, callVars, queryVars,
                   cap>>

\* ------------------------------------------------------ clock and queries
Tick ==
    /\ now < MaxClock
    /\ now' = now + 1
    /\ UNCHANGED <<configVars, bridgeVars, backend, monitorVars, mainPc, stopPc,
                   stopCtx, constructedAt, callVars, queryVars, cap>>

\* line 289 with the operands of the subtraction exchanged
IdleMsReversed == RoundMs(last_active - now)

\* lines 289-292
IdleMs == RoundMs(now - last_active)

GetIdletime ==
    /\ "IdleMonitor" \in exports
    /\ bus = "connected"
    /\ mainPc \in Suspended
    /\ lastIdle' = IdleMs
    /\ prevIdle' = lastIdle
    /\ resumedSince' = FALSE
    /\ UNCHANGED <<configVars, bridgeVars, backend, monitorVars, mainPc, stopPc,
                   stopCtx, now, constructedAt, callVars, cap>>

\* the steps of the main task
MainStep ==
    \/ \E avail \in SUBSET LifecycleTools, busOk \in BOOLEAN : MainBegin(avail, busOk)
    \/ ReplyArrives
    \/ BusConnected
    \/ \E granted \in BOOLEAN, swayidle \in BOOLEAN : NameReplied1(granted, swayidle)
    \/ \E ok \in BOOLEAN : SpawnDone(ok)
    \/ \E granted \in BOOLEAN : NameReplied2(granted)
    \/ BusCallRaises
    \/ BusCallHangs
    \/ MainWake

\* the steps of the stop() tasks
StopStep ==
    \/ \E i \in StopIds : StopBegin(i)
    \/ \E i \in StopIds : StopTaskOver(i)
    \/ \E i \in StopIds : StopWaitOver(i)

\* the steps of the read task and of the child
MonitorStep ==
    \/ \E line \in Lines : IdleLoopLine(line)
    \/ IdleLoopEOF
    \/ IdleLoopCancelled
    \/ ChildExit
    \/ StdoutClosed

\* ------------------------------------------------------------ the backends
\* What the external tool does when subprocess.run starts it: it cannot be
\* spawned (subprocess.run raises), or it exits with a status.
ExitCodes == {0, 1, -9}

ToolOutcomes ==
    {[spawned |-> TRUE, code |-> c] : c \in ExitCodes} \cup {[spawned |-> FALSE, code |-> 0]}

\* subprocess.run(cmd, capture_output=True) and "result.returncode == 0"
Run(cmd, o) ==
    [argv |-> cmd, raised |-> ~o.spawned, ret |-> (o.spawned /\ o.code = 0),
     warned |-> FALSE]

\* the flag appended whatever the condition
OptAlways(flag, cond) == <<flag>>

\* "if cond: cmd.append(flag)"
Opt(flag, cond) == IF cond THEN <<flag>> ELSE <<>>

\* logger.warning(...) before the call
Warned(r) == [r EXCEPT !.warned = TRUE]

\* the geometry written size first
GeometrySizeFirst(x, y, width, height) ==
    ToString(width) \o "x" \o ToString(height) \o " " \o ToString(x) \o "," \o ToString(y)

\* f"{x},{y} {width}x{height}"
Geometry(x, y, width, height) ==
    ToString(x) \o "," \o ToString(y) \o " " \o ToString(width) \o "x" \o ToString(height)

capture_full(b, filename, include_cursor, o) ==
    CASE b = "spectacle" ->
            Run(<<"spectacle", "-b", "-n", "-f", "-o", filename>>
                \o Opt("-p", include_cursor), o)
      [] b = "grim" ->
            Run(<<"grim">> \o Opt("-c", include_cursor) \o <<filename>>, o)
      [] b = "gnome-screenshot" ->
            Run(<<"gnome-screenshot", "-f", filename>> \o Opt("-p", include_cursor), o)

capture_area(b, filename, x, y, width, height, o) ==
    CASE b = "spectacle" -> Warned(capture_full(b, filename, FALSE, o))
      [] b = "grim" ->
            Run(<<"grim", "-g", Geometry(x, y, width, height), filename>>, o)
      [] b = "gnome-screenshot" -> capture_full(b, filename, FALSE, o)

capture_window(b, filename, include_cursor, include_decorations, o) ==
    CASE b = "spectacle" ->
            Run(<<"spectacle", "-b", "-n", "-a", "-o", filename>>
                \o Opt("-p", include_cursor) \o Opt("-e", ~include_decorations), o)
      [] b = "grim" -> Warned(capture_full(b, filename, include_cursor, o))
      [] b = "gnome-screenshot" ->
            Run(<<"gnome-screenshot", "-w", "-f", filename>>
                \o Opt("-p", include_cursor) \o Opt("-B", ~include_decorations), o)

\* the inputs the backend operations are applied to
Kinds == {"full", "area", "window"}

Filenames == {"/tmp/a.png", "/tmp/b.png"}

Rects == {<<10, 20, 300, 200>>, <<0, 0, 1, 1>>, <<-5, 7, 0, 3>>}

\* one call of a backend operation, with what the tool does (each behaviour
\* of the backend specification studies one call)
BackendCall(b, kind, filename, include_cursor, include_decorations, rect, o) ==
    /\ cap = NoCap
    /\ cap' = [phase |-> "done", backend |-> b, kind |-> kind, filename |-> filename,
               include_cursor |-> include_cursor,
               include_decorations |-> include_decorations,
               rect |-> rect, outcome |-> o,
               res |-> CASE kind = "full" -> capture_full(b, filename, include_cursor, o)
                         [] kind = "area" ->
                              capture_area(b, filename, rect[1], rect[2], rect[3],
                                           rect[4], o)
                         [] kind = "window" ->
                              capture_window(b, filename, include_cursor,
                                             include_decorations, o)]
    /\ UNCHANGED <<configVars, bridgeVars, backend, monitorVars, mainPc, stopPc,
                   stopCtx, now, constructedAt, callVars, queryVars>>

\* the three methods of the Screenshot interface (lines 197-233): the
\* backend's result with the caller's filename, (False, filename) when the
\* backend raises
InterfaceReply(b, kind, filename, include_cursor, include_frame, rect, o) ==
    LET r == CASE kind = "full" -> capture_full(b, filename, include_cursor, o)
               [] kind = "area" ->
                    capture_area(b, filename, rect[1], rect[2], rect[3], rect[4], o)
               [] kind = "window" ->
                    capture_window(b, filename, include_cursor, include_frame, o)
    IN  IF r.raised THEN <<FALSE, filename>> ELSE <<r.ret, filename>>

\* the command of the pre-capture notification (lines 190-193)
NotifyCmd ==
    <<"notify-send", "-u", "normal", "-t", "2000", "Screenshot",
      "A screenshot will be taken...">>

NoRun == [argv |-> <<>>, raised |-> FALSE, ret |-> FALSE, warned |-> FALSE]

\* _maybe_warn without the try/except of lines 189-195
maybe_warn_uncaught(warn, n) ==
    IF warn THEN Run(NotifyCmd, n) ELSE NoRun

\* _maybe_warn (lines 187-195): the notification tool is run when warn_before
\* is set; its exit status is not looked at and an exception of
\* subprocess.run is swallowed
maybe_warn(warn, n) ==
    IF warn THEN [Run(NotifyCmd, n) EXCEPT !.raised = FALSE] ELSE NoRun

\* one method of the Screenshot interface from its call to its return, on an
\* interface constructed with backend b and warn_before warn: n is what the
\* notification tool does, o what the screenshot tool does.  "propagated"
\* says that an exception leaves the method (_maybe_warn is called outside
\* the method's try).  The flash argument is never read.
Method(b, warn, kind, filename, include_cursor, include_frame, flash, rect, n, o) ==
    LET w == maybe_warn(warn, n)
        r == CASE kind = "full" -> capture_full(b, filename, include_cursor, o)
               [] kind = "area" ->
                    capture_area(b, filename, rect[1], rect[2], rect[3], rect[4], o)
               [] kind = "window" ->
                    capture_window(b, filename, include_cursor, include_frame, o)
    IN  [propagated |-> w.raised,
         notify |-> w.argv,
         argv |-> IF w.raised THEN <<>> ELSE r.argv,
         warned |-> ~w.raised /\ r.warned,
         reply |-> InterfaceReply(b, kind, filename, include_cursor, include_frame,
                                  rect, o)]

\* one call of a method of the Screenshot interface (each behaviour of the
\* interface specification studies one call)
InterfaceCall(b, warn, kind, filename, include_cursor, include_frame, flash, rect, n, o) ==
    /\ cap = NoCap
    /\ cap' = [phase |-> "replied", backend |-> b, warn |-> warn, kind |-> kind,
               filename |-> filename, include_cursor |-> include_cursor,
               include_frame |-> include_frame, flash |-> flash, rect |-> rect,
               notified |-> n, outcome |-> o,
               out |-> Method(b, warn, kind, filename, include_cursor, include_frame,
                              flash, rect, n, o)]
    /\ UNCHANGED <<configVars, bridgeVars, backend, monitorVars, mainPc, stopPc,
                   stopCtx, now, constructedAt, callVars, queryVars>>

\* a client calls a method of the exported Screenshot interface; the call is
\* served in one step (subprocess.run blocks the loop)
ServeCapture(kind, filename, include_cursor, include_frame, rect, o) ==
    /\ "Screenshot" \in exports
    /\ bus = "connected"
    /\ mainPc \in Suspended
    /\ cap' = [phase |-> "served",
               res |-> Method(backend, warn_before, kind, filename, include_cursor,
                              include_frame, FALSE, rect, o, o).reply]
    /\ UNCHANGED <<configVars, bridgeVars, backend, monitorVars, mainPc, stopPc,
                   stopCtx, now, constructedAt, callVars, queryVars>>

\* the capture calls that arrive while the life cycle runs (the arguments
\* are varied in the backend specification)
CaptureStep ==
    \E kind \in Kinds, o \in {t \in ToolOutcomes : t.code = 0} :
        ServeCapture(kind, "/tmp/a.png", FALSE, TRUE, <<10, 20, 300, 200>>, o)

\* ---------------------------------------------------- calls in a row
\* The capture calls clients have sent, in the order the connection
\* delivers them: those not yet handled ("pending"), those a handler has
\* begun and not yet answered ("active"), and the answers in the order they
\* were sent ("replied", each with whether other tasks were waiting for the
\* loop when it was sent).
NoCalls == [phase |-> "calls", pending |-> <<>>, active |-> {}, replied |-> <<>>]

Calls == IF cap = NoCap THEN NoCalls ELSE cap

\* another task of the loop is ready to run or suspended: the read task, a
\* stop()
OthersWaiting ==
    \/ monitor_task \in {"pending", "cancelling"}
    \/ \E i \in StopIds : stopPc[i] \in {"scheduled"} \cup StopWaiting

\* a client sends a capture call while the bridge is on the bus
Arrive(kind) ==
    /\ cap.phase \in {"none", "calls"}
    /\ "Screenshot" \in exports
    /\ bus = "connected"
    /\ Len(Calls.pending) + Cardinality(Calls.active) + Len(Calls.replied) < MaxCalls
    /\ cap' = [Calls EXCEPT !.pending =
                  Append(@, [id |-> Len(Calls.pending) + Cardinality(Calls.active)
                                    + Len(Calls.replied) + 1,
                             kind |-> kind])]
    /\ UNCHANGED <<configVars, bridgeVars, backend, monitorVars, mainPc, stopPc,
                   stopCtx, now, constructedAt, callVars, queryVars>>

\* the handler as a coroutine that suspends while the tool runs: the call
\* is begun and left unanswered
ServeNextAsync(o) ==
    /\ cap.phase = "calls"
    /\ cap.pending # <<>>
    /\ "Screenshot" \in exports
    /\ bus = "connected"
    /\ mainPc \in Suspended
    /\ cap' = [cap EXCEPT !.pending = Tail(@),
                          !.active = @ \cup {Head(cap.pending).id}]
    /\ UNCHANGED <<configVars, bridgeVars, backend, monitorVars, mainPc, stopPc,
                   stopCtx, now, constructedAt, callVars, queryVars>>

\* the connection hands the next call to its method (lines 197-233), a plain
\* function: _maybe_warn, the backend's subprocess.run and the return happen
\* before the event loop gets control back, so the call is answered in the
\* step that begins it
ServeNext(o) ==
    /\ cap.phase = "calls"
    /\ cap.pending # <<>>
    /\ "Screenshot" \in exports
    /\ bus = "connected"
    /\ mainPc \in Suspended
    /\ LET call == Head(cap.pending)
           out == Method(backend, warn_before, call.kind, "/tmp/a.png", FALSE, TRUE,
                         FALSE, <<10, 20, 300, 200>>, o, o)
       IN  cap' = [cap EXCEPT !.pending = Tail(@),
                              !.replied = Append(@, [id |-> call.id,
                                                     ok |-> out.reply[1],
                                                     others |-> OthersWaiting])]
    /\ UNCHANGED <<configVars, bridgeVars, backend, monitorVars, mainPc, stopPc,
                   stopCtx, now, constructedAt, callVars, queryVars>>

\* the life cycle of the bridge, the clock standing still
Next ==
    \/ MainStep
    \/ SignalUpTo(MaxStops)
    \/ StopStep
    \/ MonitorStep
    \/ CaptureStep

Spec == Init /\ [][Next]_vars

\* the idle monitor with the clock running and IdleTime queries arriving
NextIdle ==
    \/ MainStep
    \/ SignalUpTo(IdleStops)
    \/ StopStep
    \/ MonitorStep
    \/ CaptureStep
    \/ Tick
    \/ GetIdletime

\* the idle monitor never reads the backend preference: one value of it
InitIdle == Init /\ backend_name = "grim"

SpecIdle == InitIdle /\ [][NextIdle]_vars

\* the life cycle with capture calls arriving in a row
NextCapture ==
    \/ MainStep
    \/ SignalUpTo(IdleStops)
    \/ StopStep
    \/ MonitorStep
    \/ \E kind \in Kinds : Arrive(kind)
    \/ \E o \in {t \in ToolOutcomes : t.code = 0} : ServeNext(o)

SpecCapture == InitIdle /\ [][NextCapture]_vars

NextBackend ==
    \E b \in BackendNames, kind \in Kinds, filename \in Filenames,
       include_cursor \in BOOLEAN, include_decorations \in BOOLEAN,
       rect \in Rects, o \in ToolOutcomes :
        BackendCall(b, kind, filename, include_cursor, include_decorations, rect, o)

SpecBackend == Init /\ [][NextBackend]_vars

\* one call of detect_backend, the tools in avail being on the PATH; detect(None)
\* on the same PATH is recorded next to it
DetectCall(preferred, avail) ==
    /\ cap = NoCap
    /\ cap' = [phase |-> "detected", preferred |-> preferred, avail |-> avail,
               res |-> detect_backend(preferred, avail),
               auto |-> detect_backend("None", avail)]
    /\ UNCHANGED <<configVars, bridgeVars, backend, monitorVars, mainPc, stopPc,
                   stopCtx, now, constructedAt, callVars, queryVars>>

NextDetect ==
    \E preferred \in PreferredNames, avail \in SUBSET BackendNames :
        DetectCall(preferred, avail)

SpecDetect == Init /\ [][NextDetect]_vars

NextInterface ==
    /\ cap = NoCap
    /\ \E b \in BackendNames, warn \in BOOLEAN, kind \in Kinds, filename \in Filenames,
          include_cursor \in BOOLEAN, include_frame \in BOOLEAN, flash \in BOOLEAN,
          rect \in Rects, n \in ToolOutcomes, o \in ToolOutcomes :
           InterfaceCall(b, warn, kind, filename, include_cursor, include_frame, flash,
                         rect, n, o)

SpecInterface == Init /\ [][NextInterface]_vars

TypeOK ==
    /\ bus \in {"None", "connecting", "connected", "disconnected"}
    /\ monitor_process \in {"None", "alive", "eof", "exited", "closed"}
    /\ monitor_task \in {"None", "pending", "cancelling", "done", "cancelled"}
    /\ mainPc \in {"begin", "hung"} \cup Suspended \cup MainEnded
    /\ \A i \in StopIds : stopPc[i] \in {"unborn", "scheduled"} \cup StopWaiting \cup StopEnded
    /\ \A i \in StopIds : stopCtx[i] \in {"none", "overlap", "first", "second", "other"}

\* ================================================================ claims
\* some stop() has run its first step (line 345)
StopBegun == \E i \in StopIds : stopPc[i] \in StopWaiting \cup StopEnded

\* C1: when stop() is called twice in succession on a started bridge (the
\* first call found the monitor running and terminated its child, the second
\* was made after the first had completed), the second call ends without an
\* exception and cancels, terminates and disconnects nothing again: over both
\* calls the read task is cancelled once, the child terminated once and the
\* bus disconnected exactly once.
C1_SecondStopIsNoOp ==
    \A i \in StopIds :
        ( /\ stopCtx[i] = "second"
          /\ terminateSent
          /\ stopPc[i] \in StopEnded
          /\ \A k \in StopIds : stopCtx[k] \in {"none", "first", "second"} )
        => /\ stopPc[i] = "done"
           /\ cancelCalls = 1
           /\ terminateCalls = 1
           /\ disconnectCalls = 1

\* C2: once a stop() has been invoked, also while start() is suspended, the
\* bridge is never Running again.
C2_NeverRunningAfterStop == StopBegun => ~running

\* C3: when both termination signals were delivered to a started bridge and
\* both stop() tasks ran to their end, both completed without error, and
\* termination of the child and disconnection of the bus were requested only
\* once each.
C3_TwoStopsActOnce ==
    ( /\ Cardinality({i \in StopIds : stopPc[i] # "unborn"}) = 2
      /\ \E i \in StopIds : stopCtx[i] = "first"
      /\ terminateSent
      /\ \A i \in StopIds : stopPc[i] # "unborn" => stopPc[i] \in {"done", "raised"} )
    => /\ \A i \in StopIds : stopPc[i] # "raised"
       /\ terminateCalls <= 1
       /\ disconnectCalls <= 1

\* C3, the handler: a signal handler step only schedules a stop() task; the
\* running flag, the idle monitor and the bus are as before.
C3_HandlerOnlySchedules ==
    [][ (stopPc' # stopPc /\ \E i \in StopIds : stopPc[i] = "unborn" /\ stopPc'[i] = "scheduled")
        => UNCHANGED <<bridgeVars, monitorVars, mainPc, callVars>> ]_vars

\* C4: in the step in which a stop that found the monitor Monitoring and
\* terminated its child ends (no other stop having been called), it ends
\* normally and leaves the monitor Unmonitored: the monitor holds no child
\* process and no read task any more.
C4_StopEndsUnmonitored ==
    [][ \A i \in StopIds :
          ( /\ stopCtx[i] = "first"
            /\ terminateSent
            /\ \A j \in StopIds \ {i} : stopPc[j] = "unborn"
            /\ stopPc[i] \notin {"done", "raised"}
            /\ stopPc'[i] \in {"done", "raised"} )
          => /\ stopPc'[i] = "done"
             /\ monitor_process' = "None"
             /\ monitor_task' = "None" ]_vars

\* C8: if the detector finds no backend, start() fails and the bridge stays
\* Stopped: no bus connection, no interface exported, no name claimed, no
\* idle helper spawned, and run_forever has returned without waiting.
C8_NoBackendNoService ==
    (mainPc # "begin" /\ backend = "None")
    => /\ mainPc = "returned"
       /\ ~running
       /\ bus = "None"
       /\ exports = {}
       /\ names = {}
       /\ ~idle_monitor
       /\ monitor_process = "None"
       /\ monitor_task = "None"
       /\ \A i \in StopIds : stopPc[i] = "unborn"

C8_Witness == mainPc = "returned" /\ backend = "None" /\ backend_name = "grim"

\* C5: the last-activity timestamp of an existing monitor changes only in a
\* step in which the read loop consumes a line denoting resume, and is then
\* the current time; every other line and every other operation leave it.
C5_OnlyResumeWrites ==
    [][ (idle_monitor /\ last_active' # last_active)
        => /\ \E line \in Lines : Decodable(line) /\ IsResume(line) /\ IdleLoopLine(line)
           /\ last_active' = now ]_vars

C5_Witness ==
    idle_monitor /\ monitor_task = "pending" /\ last_active > constructedAt

\* C6: every GetIdletime() returns a non-negative duration, and one that is
\* not smaller than the one returned by the query before it, unless a resume
\* line was consumed between the two queries (the clock never goes back).
C6_IdleMonotone ==
    [][ GetIdletime
        => /\ lastIdle' >= 0
           /\ (lastIdle >= 0 /\ ~resumedSince) => lastIdle' >= lastIdle ]_vars

C6_Witness == prevIdle >= 0 /\ lastIdle > prevIdle /\ ~resumedSince

\* the idle helper could not be spawned: start_monitoring has returned and
\* the monitor holds no child
SpawnFailed == idle_monitor /\ mainPc # "spawn" /\ monitor_process = "None"

\* C7: when the idle helper cannot be spawned, the monitor stays Unmonitored,
\* start() goes on to register the IdleTime interface and, unless stopped,
\* sets the bridge Running, and every GetIdletime() returns the time elapsed
\* since the monitor was constructed.
C7_SpawnFailureDegrades ==
    [][ SpawnFailed'
        => /\ monitor_task' = "None"
           /\ "IdleMonitor" \in exports'
           /\ last_active' = constructedAt'
           /\ (mainPc' = "sleep" /\ ~StopBegun') => running'
           /\ GetIdletime => lastIdle' = RoundMs(now - constructedAt) ]_vars

C7_Witness ==
    SpawnFailed /\ running /\ "IdleMonitor" \in names /\ lastIdle >= 1

\* the capture kinds a backend has no native primitive for
C9_NonNative ==
    {<<"spectacle", "area">>, <<"gnome-screenshot", "area">>, <<"grim", "window">>}

\* C9: a capture kind the backend does not support natively runs the tool
\* exactly as capture_full with the equivalent cursor flag does (same argv,
\* same target), gives the same result, and logs a degradation warning.
C9_DegradedIsFullWithWarning ==
    (cap.phase = "done" /\ <<cap.backend, cap.kind>> \in C9_NonNative)
    => LET full == capture_full(cap.backend, cap.filename,
                                cap.kind = "window" /\ cap.include_cursor,
                                cap.outcome)
       IN  /\ cap.res.argv = full.argv
           /\ cap.res.ret = full.ret
           /\ cap.res.raised = full.raised
           /\ cap.res.warned

\* C10: every backend operation returns true if and only if the tool exits
\* with status 0, and returns false, without raising, when the tool exits
\* with another status or cannot be spawned.
C10_TrueIffExitZero ==
    cap.phase = "done"
    => /\ ~cap.res.raised
       /\ cap.res.ret <=> (cap.outcome.spawned /\ cap.outcome.code = 0)

\* C11: every call of Screenshot, ScreenshotWindow or ScreenshotArea returns:
\* no exception leaves the method, also when the notification tool cannot be
\* run; the reply is a pair whose second component is the caller's filename,
\* and its first component is false when the screenshot tool could not be
\* spawned or exited with a status other than 0.
C11_AlwaysReplies ==
    cap.phase = "replied" =>
        /\ ~cap.out.propagated
        /\ Len(cap.out.reply) = 2
        /\ cap.out.reply[2] = cap.filename
        /\ (~cap.outcome.spawned \/ cap.outcome.code # 0) => cap.out.reply[1] = FALSE

C11_Witness ==
    /\ cap.phase = "replied"
    /\ cap.warn /\ ~cap.notified.spawned
    /\ ~cap.outcome.spawned
    /\ cap.out.reply = <<FALSE, cap.filename>>

\* C12: a preferred name that is the name of a backend whose tool is
\* available makes detect_backend return that backend, whatever its place in
\* BACKENDS and whatever else is available.
C12_PreferredAvailableWins ==
    ( /\ cap.phase = "detected"
      /\ cap.preferred \in BackendNames
      /\ cap.preferred \in cap.avail )
    => cap.res = cap.preferred

C12_Witness ==
    /\ cap.phase = "detected"
    /\ cap.preferred = "gnome-screenshot"
    /\ cap.avail = BackendNames
    /\ cap.res = "gnome-screenshot"

\* C13: a preferred name that is the name of a backend whose tool is not
\* available, or the name of no backend, makes detect_backend return what
\* detect_backend(None) returns for the same tools.
C13_PreferredUnavailableIsAuto ==
    ( /\ cap.phase = "detected"
      /\ (cap.preferred \notin BackendNames \/ cap.preferred \notin cap.avail) )
    => cap.res = cap.auto

C13_Witness ==
    /\ cap.phase = "detected"
    /\ cap.preferred = "spectacle"
    /\ cap.avail = {"grim", "gnome-screenshot"}
    /\ cap.res = "grim"

\* C14: detect_backend(None) returns spectacle if it is available, else grim
\* if it is available, else gnome-screenshot if it is available, and
\* nothing exactly when none of the three is.
C14_AutoDetectPriority ==
    ( cap.phase = "detected" /\ cap.preferred = "None" )
    => /\ (cap.res = "None") <=> (cap.avail = {})
       /\ "spectacle" \in cap.avail => cap.res = "spectacle"
       /\ ("spectacle" \notin cap.avail /\ "grim" \in cap.avail) => cap.res = "grim"
       /\ (cap.avail = {"gnome-screenshot"}) => cap.res = "gnome-screenshot"

C14_Witness ==
    /\ cap.phase = "detected"
    /\ cap.preferred = "None"
    /\ cap.avail = {"grim", "gnome-screenshot"}
    /\ cap.res = "grim"

\* the geometry strings "x,y WxH" of the rectangles of Rects, written out
C15_Geometry ==
    [r \in Rects |-> CASE r = <<10, 20, 300, 200>> -> "10,20 300x200"
                       [] r = <<0, 0, 1, 1>> -> "0,0 1x1"
                       [] r = <<-5, 7, 0, 3>> -> "-5,7 0x3"]

\* C15: with the grim backend, ScreenshotArea(x, y, width, height, flash,
\* filename) runs one command, grim -g "x,y WxH" filename, built from the
\* caller's rectangle and filename, not the full-screen command and without
\* a degradation warning, and replies (true, filename) when grim exits with
\* status 0 and (false, filename) otherwise.
C15_GrimAreaIsNative ==
    ( cap.phase = "replied" /\ cap.backend = "grim" /\ cap.kind = "area" )
    => /\ cap.out.argv = <<"grim", "-g", C15_Geometry[cap.rect], cap.filename>>
       /\ ~cap.out.warned
       /\ cap.out.reply = <<cap.outcome.spawned /\ cap.outcome.code = 0, cap.filename>>

C15_Witness ==
    /\ cap.phase = "replied" /\ cap.backend = "grim" /\ cap.kind = "area"
    /\ cap.rect = <<10, 20, 300, 200>> /\ cap.filename = "/tmp/a.png"
    /\ cap.outcome.spawned /\ cap.outcome.code = 0
    /\ cap.out.argv = <<"grim", "-g", "10,20 300x200", "/tmp/a.png">>
    /\ cap.out.reply = <<TRUE, "/tmp/a.png">>

\* the flags of the tools: include the pointer, leave out the decorations
C16_CursorFlag == [b \in BackendNames |-> IF b = "grim" THEN "-c" ELSE "-p"]

C16_BareFlag == [b \in {"spectacle", "gnome-screenshot"} |->
                    IF b = "spectacle" THEN "-e" ELSE "-B"]

C16_InArgv(flag) == \E i \in 1..Len(cap.res.argv) : cap.res.argv[i] = flag

\* C16: in capture_full, in the capture_window of spectacle and
\* gnome-screenshot and in grim's capture_window (a full capture), the
\* tool's pointer flag is in the command exactly when include_cursor was
\* asked for; in the capture_window of spectacle and gnome-screenshot the
\* no-decorations flag is in the command exactly when include_decorations
\* is false.
C16_FlagsFollowRequest ==
    ( cap.phase = "done" /\ cap.kind \in {"full", "window"} )
    => /\ C16_InArgv(C16_CursorFlag[cap.backend]) <=> cap.include_cursor
       /\ (cap.kind = "window" /\ cap.backend # "grim")
              => (C16_InArgv(C16_BareFlag[cap.backend]) <=> ~cap.include_decorations)

C16_Witness ==
    /\ cap.phase = "done" /\ cap.kind = "window" /\ cap.backend = "grim"
    /\ cap.include_cursor /\ ~cap.include_decorations
    /\ cap.res.argv = <<"grim", "-c", cap.filename>>

\* C17, the order inside the idle monitor's stop: whenever terminate() is
\* called on the child, the read task is over.
C17_TaskOverBeforeTerminate ==
    [][ terminateCalls' # terminateCalls => monitor_task \in TaskOver ]_vars

\* C17: the bus is disconnected last: once stop() has disconnected the bus,
\* the bridge has no idle-monitor child that is still running and no read
\* task that is still alive.
C17_BusDisconnectedLast ==
    disconnectCalls > 0
    => /\ monitor_process \notin {"alive", "eof"}
       /\ monitor_task \notin {"pending", "cancelling"}

\* C18: as long as no stop() has been invoked, the bridge is Running only
\* with the bus connected, the Screenshot interface exported and its name
\* claimed and, when idle tracking is enabled, the IdleMonitor interface
\* exported and its name claimed; with idle tracking disabled there is no
\* idle monitor, no child and no IdleMonitor export or name at any time.
C18_RunningMeansRegistered ==
    /\ (running /\ ~StopBegun)
          => /\ bus = "connected"
             /\ "Screenshot" \in exports /\ "Screenshot" \in names
             /\ enable_idle => ("IdleMonitor" \in exports /\ "IdleMonitor" \in names)
    /\ ~enable_idle
          => /\ ~idle_monitor /\ monitor_process = "None" /\ monitor_task = "None"
             /\ "IdleMonitor" \notin exports /\ "IdleMonitor" \notin names

\* C18, failures: when start() ended with an exception the bridge is not
\* Running, and start() is not run again.
C18_FailedStartNeverRuns ==
    [][ mainPc = "raised" => (~running' /\ mainPc' = "raised") ]_vars

\* C19, one connection: async_main creates a bus connection only when the
\* bridge has none.
C19_OneConnection ==
    [][ (bus' = "connecting" /\ bus # "connecting") => bus = "None" ]_vars

\* C19: when the bridge is Stopped (run_forever is over, the bridge is not
\* Running and no stop() is under way), the connection it opened is not
\* open any more.
C19_StoppedMeansDisconnected ==
    ( /\ mainPc \in MainEnded
      /\ ~running
      /\ \A i \in StopIds : stopPc[i] \in {"unborn"} \cup StopEnded )
    => bus # "connected"

\* C20: no capture is ever in progress when a step ends, so no two are in
\* progress together and no step of the read task, of stop() or of another
\* capture falls inside one: a step that answers a call began that same
\* call, answers only it and touches nothing of the bridge or the idle
\* monitor, and the calls are answered in the order they arrived.
C20_CaptureIsOneStep ==
    [][ cap'.phase = "calls" =>
          /\ cap'.active = {}
          /\ \A i \in 1..Len(cap'.replied) : cap'.replied[i].id = i
          /\ (cap.phase = "calls" /\ cap'.replied # cap.replied) =>
                /\ cap.pending # <<>>
                /\ cap'.pending = Tail(cap.pending)
                /\ Len(cap'.replied) = Len(cap.replied) + 1
                /\ cap'.replied[Len(cap'.replied)].id = Head(cap.pending).id
                /\ UNCHANGED <<bridgeVars, monitorVars, mainPc, stopPc, callVars>> ]_vars

C20_Witness ==
    /\ cap.phase = "calls"
    /\ Len(cap.replied) = 2
    /\ cap.replied[1].others /\ cap.replied[2].others
    /\ \E i \in StopIds : stopPc[i] = "awaitTask"

====
